---- MODULE Spec2Model ----
(***************************************************************************)
(* django-cloud-deploy: the crash handler (crash_handling/__init__.py) and *)
(* the browser helper (utils/webbrowser.py).                               *)
(*                                                                         *)
(* Python strings are sequences of one-character strings, so that strip,   *)
(* lower, rstrip, replace, format and urlencode are computed character by  *)
(* character.  The process's descriptor table maps each open descriptor to *)
(* the path it refers to.                                                  *)
(***************************************************************************)
EXTENDS Naturals, Sequences, FiniteSets

VARIABLES
    pc,             \* position of the process inside handle_crash
    err,            \* handle_crash argument: [kind, msg] of the exception
    command,        \* handle_crash argument
    tool_env,       \* environment: what happens when each helper tool is run
    q,              \* index in TOOLS of the query _create_issue_body is at
    version,        \* gcloud_version, docker_version, cloud_sql_proxy_version
    issue_content,  \* local of handle_crash
    issue_title,    \* local of handle_crash
    log_fd,         \* local of handle_crash
    log_file_path,  \* local of handle_crash
    log_file,       \* the file object of os.fdopen: [state, buffer]
    ans,            \* local of handle_crash
    exc,            \* the exception that left handle_crash, if any
    events,         \* calls received by the console and by the browser
    files,          \* the file system: path -> content
    fds,            \* descriptor table of the process: fd -> path
    parent_fds,     \* descriptor table of the parent process
    upc,            \* position of the process inside open_url
    url,            \* open_url argument
    f,              \* descriptor of the file object f of open_url
    fds_at_call,    \* descriptor table when open_url was entered
    calls           \* number of open_url calls started

hc_vars == <<pc, err, command, tool_env, q, version, issue_content,
             issue_title, log_fd, log_file_path, log_file, ans, exc, events,
             files>>
ou_vars == <<parent_fds, upc, url, f, fds_at_call, calls>>
vars == <<hc_vars, ou_vars, fds>>

----------------------------------------------------------------------------
\* Bounds of the model.

\* The user answers the prompt at most MaxAsks times.
MaxAsks == 3

\* open_url is called at most MaxCalls times.
MaxCalls == 2

----------------------------------------------------------------------------
\* String literals of the source.

\* crash_handling/__init__.py:122,128,134: the fallback version string.
SENTINEL ==
    <<"N","o","t"," ","i","n","s","t","a","l","l","e","d"," ","o","r"," ","n",
      "o","t"," ","o","n"," ","P","A","T","H">>

\* crash_handling/__init__.py:103: the format string of the issue title.
TITLE_FORMAT ==
    <<"{","}",":","{","}"," ","d","u","r","i","n","g"," ","\"","{","}","\"">>

\* crash_handling/__init__.py:63-68: the format string of the message shown to the user.
TELL_FORMAT ==
    <<"Y","o","u","r"," ","\"","{","}","\""," ","f","a","i","l","e","d"," ",
      "d","u","e"," ","t","o"," ","a","n"," ","i","n","t","e","r","n","a","l",
      " ","e","r","r","o","r",".","\n","\n","Y","o","u"," ","c","a","n"," ",
      "r","e","p","o","r","t"," ","t","h","i","s"," ","e","r","r","o","r"," ",
      "b","y"," ","f","i","l","i","n","g"," ","a"," ","b","u","g"," ","o","n",
      " ","G","i","t","h","u","b","."," ","I","f"," ","y","o","u"," ","a","g",
      "r","e","e",",","\n","a"," ","b","r","o","w","s","e","r"," ","w","i",
      "n","d","o","w"," ","w","i","l","l"," ","o","p","e","n"," ","a","n","d",
      " ","a","n"," ","G","i","t","h","u","b"," ","i","s","s","u","e"," ","w",
      "i","l","l"," ","b","e","\n","p","r","e","-","p","o","p","u","l","a",
      "t","e","d"," ","w","i","t","h"," ","t","h","e"," ","d","e","t","a","i",
      "l","s"," ","o","f"," ","t","h","i","s"," ","c","r","a","s","h",".",
      "\n","F","o","r"," ","m","o","r","e"," ","d","e","t","a","i","l","s",
      ","," ","s","e","e",":"," ","{","}">>

\* crash_handling/__init__.py:71: the prompt of the interactive gate.
ASK_PROMPT ==
    <<"W","o","u","l","d"," ","y","o","u"," ","l","i","k","e"," ","t","o"," ",
      "f","i","l","e"," ","a"," ","b","u","g","?"," ","[","y","/","N","]",":",
      " ">>

\* crash_handling/__init__.py:55: the prefix handed to tempfile.mkstemp.
MKSTEMP_PREFIX ==
    <<"d","j","a","n","g","o","-","d","e","p","l","o","y","-","b","u","g","-",
      "r","e","p","o","r","t","-">>

\* crash_handling/__init__.py:92-93: the issue-creation endpoint.
REQUEST_URL ==
    <<"h","t","t","p","s",":","/","/","g","i","t","h","u","b",".","c","o","m",
      "/","G","o","o","g","l","e","C","l","o","u","d","P","l","a","t","f","o",
      "r","m","/","d","j","a","n","g","o","-","c","l","o","u","d","-","d","e",
      "p","l","o","y","/","i","s","s","u","e","s","/","n","e","w","?","{",
      "}">>

\* utils/webbrowser.py:21: os.devnull.
DEVNULL ==
    <<"/","d","e","v","/","n","u","l","l">>

\* utils/webbrowser.py:22: the descriptor os.dup2 overwrites.
STDERR_FILENO == 2

\* A local that has not been assigned yet (no string equals it: the elements
\* of a string are single characters).
Unbound == <<"<unbound>">>

\* A local that holds a descriptor n is <<n>>; << >> before it is assigned.
NoFd == << >>

----------------------------------------------------------------------------
\* Python's str methods, character by character.

UPPERCASE ==
    <<"A","B","C","D","E","F","G","H","I","J","K","L","M","N","O","P","Q","R",
      "S","T","U","V","W","X","Y","Z">>

LOWERCASE ==
    <<"a","b","c","d","e","f","g","h","i","j","k","l","m","n","o","p","q","r",
      "s","t","u","v","w","x","y","z">>

\* The characters str.strip() and str.rstrip() remove.
WHITESPACE == {" ", "\t", "\n", "\r", "\f"}

lower_char(c) ==
    IF \E i \in 1..Len(UPPERCASE) : UPPERCASE[i] = c
    THEN LOWERCASE[CHOOSE i \in 1..Len(UPPERCASE) : UPPERCASE[i] = c]
    ELSE c

\* str.lower()
lower(s) == [i \in 1..Len(s) |-> lower_char(s[i])]

RECURSIVE rstrip(_)
\* str.rstrip()
rstrip(s) ==
    IF s # << >> /\ s[Len(s)] \in WHITESPACE
    THEN rstrip(SubSeq(s, 1, Len(s) - 1))
    ELSE s

RECURSIVE lstrip(_)
\* str.lstrip()
lstrip(s) ==
    IF s # << >> /\ s[1] \in WHITESPACE THEN lstrip(Tail(s)) ELSE s

\* str.strip()
strip(s) == rstrip(lstrip(s))

\* str.replace(old, new) for one-character old and new.
replace(s, old, new) == [i \in 1..Len(s) |-> IF s[i] = old THEN new ELSE s[i]]

\* The positions from i on at which a replacement field "{}" of fmt starts.
fields_from(fmt, i) ==
    {j \in i..(Len(fmt) - 1) : fmt[j] = "{" /\ fmt[j + 1] = "}"}

RECURSIVE format_from(_, _, _, _)
\* str.format from position i of fmt, the next replacement field taking args[k].
\* The substituted text is not scanned again.
format_from(fmt, i, args, k) ==
    IF fields_from(fmt, i) = {} THEN SubSeq(fmt, i, Len(fmt))
    ELSE LET j == CHOOSE x \in fields_from(fmt, i) :
                      \A y \in fields_from(fmt, i) : x <= y
         IN  SubSeq(fmt, i, j - 1) \o args[k]
                 \o format_from(fmt, j + 2, args, k + 1)

\* fmt.format(*args) for a format string whose fields are all "{}".
format(fmt, args) == format_from(fmt, 1, args, 1)

\* Whether sub occurs in s (Python's `sub in s`).
contains(s, sub) ==
    \E i \in 1..(Len(s) + 1) :
        /\ i + Len(sub) - 1 <= Len(s)
        /\ SubSeq(s, i, i + Len(sub) - 1) = sub

\* The percent-encoding of the reserved ASCII characters the strings of the
\* model are made of.
PERCENT_CODES ==
    { <<"!", <<"%","2","1">>>>, <<"\"", <<"%","2","2">>>>,
      <<"#", <<"%","2","3">>>>, <<"$", <<"%","2","4">>>>,
      <<"%", <<"%","2","5">>>>, <<"&", <<"%","2","6">>>>,
      <<"(", <<"%","2","8">>>>, <<")", <<"%","2","9">>>>,
      <<"*", <<"%","2","A">>>>, <<"+", <<"%","2","B">>>>,
      <<",", <<"%","2","C">>>>, <<"/", <<"%","2","F">>>>,
      <<":", <<"%","3","A">>>>, <<";", <<"%","3","B">>>>,
      <<"<", <<"%","3","C">>>>, <<"=", <<"%","3","D">>>>,
      <<">", <<"%","3","E">>>>, <<"?", <<"%","3","F">>>>,
      <<"@", <<"%","4","0">>>>, <<"[", <<"%","5","B">>>>,
      <<"]", <<"%","5","D">>>>, <<"^", <<"%","5","E">>>>,
      <<"{", <<"%","7","B">>>>, <<"|", <<"%","7","C">>>>,
      <<"}", <<"%","7","D">>>>, <<"\n", <<"%","0","A">>>>,
      <<"\t", <<"%","0","9">>>>, <<"\r", <<"%","0","D">>>> }

\* urllib.parse.quote_plus for one character: unreserved characters are kept,
\* a space becomes "+", everything else is percent-encoded.
quote_plus_char(c) ==
    IF c = " " THEN <<"+">>
    ELSE IF \E p \in PERCENT_CODES : p[1] = c
         THEN (CHOOSE p \in PERCENT_CODES : p[1] = c)[2]
         ELSE <<c>>

RECURSIVE quote_plus(_)
\* urllib.parse.quote_plus: every character encoded in place (the string is
\* halved and the encodings of the halves joined).
quote_plus(s) ==
    IF s = << >> THEN << >>
    ELSE IF Len(s) = 1 THEN quote_plus_char(s[1])
    ELSE quote_plus(SubSeq(s, 1, Len(s) \div 2))
            \o quote_plus(SubSeq(s, Len(s) \div 2 + 1, Len(s)))

\* urllib.parse.urlencode({'title': title, 'body': body})
urlencode(title, body) ==
    <<"t","i","t","l","e","=">> \o quote_plus(title)
        \o <<"&","b","o","d","y","=">> \o quote_plus(body)

----------------------------------------------------------------------------
\* The environment and the inputs.

\* The helper tools, in the order _create_issue_body queries them.
TOOLS == <<"gcloud", "docker", "cloud_sql_proxy">>

\* What running a helper tool can do: exit 0, exit non-zero, not be found on
\* PATH, or never exit.
ToolStatus == {"ok", "nonzero", "missing", "hang"}

\* What each tool prints on standard output when it exits 0.
tool_stdout(t) ==
    CASE t = "gcloud" -> <<"2","3","0",".","0",".","0","\n">>
      [] t = "docker" ->
            <<"D","o","c","k","e","r"," ","1","8",".","0","9"," ","\n","\n">>
      [] t = "cloud_sql_proxy" -> <<"1",".","1","3","\r","\n">>

\* The exceptions handle_crash is called with: type(err).__name__ and str(err).
ErrInputs ==
    { [kind |-> <<"V","a","l","u","e","E","r","r","o","r">>,
       msg  |-> <<"b","a","d"," ","c","o","n","f","i","g">>],
      [kind |-> <<"R","u","n","t","i","m","e","E","r","r","o","r">>,
       msg  |-> <<"{","}">>] }

\* The commands handle_crash is called with.
CommandInputs ==
    { <<"d","e","p","l","o","y"," ","n","e","w">>, <<"a","{","}"," ","b">> }

\* The lines the user may type at the prompt.
Answers ==
    { << >>, <<"N">>, <<"n">>, <<"y">>, <<"Y">>, <<"m","a","y","b","e">>,
      <<" ","Y"," ","\n">>, <<"y","e","s">>, <<" ","\t">> }

\* sys.version, platform.platform(), traceback.format_exc() and
\* __version__.__version__ of the run.
sys_version ==
    <<"3",".","7",".","2"," ","(","d","e","f","a","u","l","t",")","\n","[",
      "G","C","C"," ","8",".","2","]">>

platform_platform ==
    <<"L","i","n","u","x","-","4",".","1","9","-","x","8","6","_","6","4">>

traceback_format_exc ==
    <<"T","r","a","c","e","b","a","c","k",":","\n"," "," ","x"," ","="," ",
      "1","/","0","\n">>

package_version == <<"0",".","2",".","1">>

\* tempfile.gettempdir()
TMPDIR == <<"/","t","m","p">>

\* The random parts mkstemp may draw for the file name.
Suffixes ==
    { <<"k","3","x","9","a","_","7","q">>, <<"z","z","0","1","b","q","2","w">> }

\* The path mkstemp builds from a random part.
mkstemp_path(sfx) == TMPDIR \o <<"/">> \o MKSTEMP_PREFIX \o sfx

\* The terminal the standard descriptors refer to.
DEV_TTY == <<"/","d","e","v","/","t","t","y">>

\* A file standard output may be redirected to.
OUT_FILE == <<"o","u","t",".","l","o","g">>

\* The lowest descriptor not open in table t (what open() and mkstemp get).
lowest_free(t) ==
    CHOOSE n \in 0..Cardinality(DOMAIN t) :
        /\ n \notin DOMAIN t
        /\ \A m \in 0..n : m < n => m \in DOMAIN t

\* Table t with descriptor n referring to path p.
fd_open(t, n, p) == [m \in DOMAIN t \cup {n} |-> IF m = n THEN p ELSE t[m]]

\* Table t with descriptor n closed.
fd_close(t, n) == [m \in DOMAIN t \ {n} |-> t[m]]

\* The file system fs with content c at path p.
file_put(fs, p, c) == [x \in DOMAIN fs \cup {p} |-> IF x = p THEN c ELSE fs[x]]

----------------------------------------------------------------------------
\* The issue template (template/issue_template.txt) and its rendering.

\* The template: each part is literal text followed by one placeholder.
ISSUE_TEMPLATE ==
    << [lit |-> <<"V","e","r","s","i","o","n",":"," ">>,
        var |-> "django_cloud_deploy_version"],
       [lit |-> <<"\n","C","o","m","m","a","n","d",":"," ">>,
        var |-> "command"],
       [lit |-> <<"\n","g","c","l","o","u","d",":"," ">>,
        var |-> "gcloud_version"],
       [lit |-> <<"\n","d","o","c","k","e","r",":"," ">>,
        var |-> "docker_version"],
       [lit |-> <<"\n","p","r","o","x","y",":"," ">>,
        var |-> "cloud_sql_proxy_version"],
       [lit |-> <<"\n","P","y","t","h","o","n",":"," ">>,
        var |-> "python_version"],
       [lit |-> <<"\n","P","l","a","t","f","o","r","m",":"," ">>,
        var |-> "platform"],
       [lit |-> <<"\n">>, var |-> "traceback"] >>

RECURSIVE render_from(_, _, _)
render_from(template, i, options) ==
    IF i > Len(template) THEN << >>
    ELSE template[i].lit \o options[template[i].var]
            \o render_from(template, i + 1, options)

\* template.render(options)
render(template, options) == render_from(template, 1, options)

\* The options _create_issue_body hands to the template.
issue_options(cmd, ver) ==
    [ django_cloud_deploy_version |-> package_version,
      command                     |-> cmd,
      gcloud_version              |-> ver["gcloud"],
      docker_version              |-> ver["docker"],
      cloud_sql_proxy_version     |-> ver["cloud_sql_proxy"],
      python_version              |-> replace(sys_version, "\n", " "),
      traceback                   |-> traceback_format_exc,
      platform                    |-> platform_platform ]

\* _create_issue_title with the first two arguments of format exchanged.
_create_issue_title_swapped(e, cmd) ==
    format(TITLE_FORMAT, <<e.msg, e.kind, cmd>>)

\* Lines 101-103: _create_issue_title.
_create_issue_title(e, cmd) == format(TITLE_FORMAT, <<e.kind, e.msg, cmd>>)

\* The URL _create_issue opens.
issue_url(title, body) == format(REQUEST_URL, <<urlencode(title, body)>>)

\* The message handle_crash shows before it asks.
tell_message(cmd, path) == format(TELL_FORMAT, <<cmd, path>>)

----------------------------------------------------------------------------
\* handle_crash (crash_handling/__init__.py:36-80).

ToolSet == {TOOLS[i] : i \in 1..Len(TOOLS)}

\* The standard descriptors of a process started from a terminal.
StandardFds == [n \in 0..2 |-> DEV_TTY]

\* A report an earlier crash left in the temporary directory.
OldReport == <<"o","l","d">>

FileSystems ==
    { << >>,
      file_put(<< >>, mkstemp_path(<<"k","3","x","9","a","_","7","q">>),
               OldReport) }

\* One call received by the console or by the browser.
Event(op, text, extra) == [op |-> op, text |-> text, extra |-> extra]

\* The events of one kind, in order.
EventsOf(op) == SelectSeq(events, LAMBDA e : e.op = op)

\* The state in which handle_crash has not been entered.
HandleCrashLocalsUnbound ==
    /\ q = 0
    /\ version = [t \in ToolSet |-> Unbound]
    /\ issue_content = Unbound
    /\ issue_title = Unbound
    /\ log_fd = NoFd
    /\ log_file_path = Unbound
    /\ log_file = [state |-> "none", buffer |-> << >>]
    /\ ans = Unbound
    /\ exc = "none"
    /\ events = << >>

\* The state in which open_url has not been entered.
OpenUrlIdle ==
    /\ upc = "idle"
    /\ url = Unbound
    /\ f = NoFd
    /\ fds_at_call = fds
    /\ calls = 0

\* handle_crash is called from a process with the standard descriptors.
Init ==
    /\ pc = "mkstemp"
    /\ err \in ErrInputs
    /\ command \in CommandInputs
    /\ tool_env \in [ToolSet -> ToolStatus]
    /\ files \in FileSystems
    /\ fds = StandardFds
    /\ parent_fds = StandardFds
    /\ HandleCrashLocalsUnbound
    /\ OpenUrlIdle

\* An exception leaves handle_crash.
Raise(name) ==
    /\ pc' = "raised"
    /\ exc' = name

\* Lines 54-55: tempfile.mkstemp creates a new, empty file under a name no
\* file has and returns a descriptor open on it.
Mkstemp ==
    /\ pc = "mkstemp"
    /\ \E sfx \in Suffixes :
        /\ mkstemp_path(sfx) \notin DOMAIN files
        /\ files' = file_put(files, mkstemp_path(sfx), << >>)
        /\ log_file_path' = mkstemp_path(sfx)
    /\ log_fd' = <<lowest_free(fds)>>
    /\ fds' = fd_open(fds, lowest_free(fds), log_file_path')
    /\ pc' = "spawn"
    /\ q' = 1
    /\ UNCHANGED <<err, command, tool_env, version, issue_content,
                   issue_title, log_file, ans, exc, events>>
    /\ UNCHANGED ou_vars

\* Lines 118, 125, 131: subprocess.check_output starts the tool.  A tool that
\* is not on PATH makes it raise FileNotFoundError, which no except clause of
\* _create_issue_body catches.
Spawn ==
    /\ pc = "spawn"
    /\ IF tool_env[TOOLS[q]] = "missing"
       THEN Raise("FileNotFoundError")
       ELSE pc' = "wait" /\ exc' = exc
    /\ UNCHANGED <<err, command, tool_env, q, version, issue_content,
                   issue_title, log_fd, log_file_path, log_file, ans, events,
                   files, fds>>
    /\ UNCHANGED ou_vars

\* The state after the query of TOOLS[q] has given its result.
AfterQuery ==
    IF q < Len(TOOLS)
    THEN pc' = "spawn" /\ q' = q + 1
    ELSE pc' = "render" /\ q' = q

\* Lines 118-122, 125-128, 131-134: check_output waits, without a timeout, for
\* the tool to exit.  Exit status 0 gives the output, rstrip()ped.
WaitOk ==
    /\ pc = "wait"
    /\ tool_env[TOOLS[q]] = "ok"
    /\ version' = [version EXCEPT ![TOOLS[q]] = rstrip(tool_stdout(TOOLS[q]))]
    /\ AfterQuery
    /\ UNCHANGED <<err, command, tool_env, issue_content, issue_title, log_fd,
                   log_file_path, log_file, ans, exc, events, files, fds>>
    /\ UNCHANGED ou_vars

\* A non-zero exit status raises CalledProcessError, which is caught.
WaitCalledProcessError ==
    /\ pc = "wait"
    /\ tool_env[TOOLS[q]] = "nonzero"
    /\ version' = [version EXCEPT ![TOOLS[q]] = SENTINEL]
    /\ AfterQuery
    /\ UNCHANGED <<err, command, tool_env, issue_content, issue_title, log_fd,
                   log_file_path, log_file, ans, exc, events, files, fds>>
    /\ UNCHANGED ou_vars

\* Lines 136-148 and 56: the body is rendered and returned to handle_crash.
Render ==
    /\ pc = "render"
    /\ issue_content' = render(ISSUE_TEMPLATE, issue_options(command, version))
    /\ pc' = "title"
    /\ UNCHANGED <<err, command, tool_env, q, version, issue_title, log_fd,
                   log_file_path, log_file, ans, exc, events, files, fds>>
    /\ UNCHANGED ou_vars

\* Line 57.
Title ==
    /\ pc = "title"
    /\ issue_title' = _create_issue_title(err, command)
    /\ pc' = "fdopen"
    /\ UNCHANGED <<err, command, tool_env, q, version, issue_content, log_fd,
                   log_file_path, log_file, ans, exc, events, files, fds>>
    /\ UNCHANGED ou_vars

\* Line 58: os.fdopen wraps the descriptor in a buffered text file.
Fdopen ==
    /\ pc = "fdopen"
    /\ log_file' = [state |-> "open", buffer |-> << >>]
    /\ pc' = "write"
    /\ UNCHANGED <<err, command, tool_env, q, version, issue_content,
                   issue_title, log_fd, log_file_path, ans, exc, events,
                   files, fds>>
    /\ UNCHANGED ou_vars

\* Line 59 writing the title instead of the body.
WriteOk_title ==
    /\ pc = "write"
    /\ log_file' = [log_file EXCEPT !.buffer = @ \o issue_title]
    /\ pc' = "close"
    /\ UNCHANGED <<err, command, tool_env, q, version, issue_content,
                   issue_title, log_fd, log_file_path, ans, exc, events,
                   files, fds>>
    /\ UNCHANGED ou_vars

\* Line 59: the body goes to the buffer of the file object.
WriteOk ==
    /\ pc = "write"
    /\ log_file' = [log_file EXCEPT !.buffer = @ \o issue_content]
    /\ pc' = "close"
    /\ UNCHANGED <<err, command, tool_env, q, version, issue_content,
                   issue_title, log_fd, log_file_path, ans, exc, events,
                   files, fds>>
    /\ UNCHANGED ou_vars

\* Line 59: the write fails (the device is full, the text cannot be encoded).
\* Part of the body may have reached the file; nothing closes the file.
WriteFails ==
    /\ pc = "write"
    /\ \E n \in {0, Len(issue_content) \div 2} :
        files' = file_put(files, log_file_path, SubSeq(issue_content, 1, n))
    /\ Raise("OSError")
    /\ UNCHANGED <<err, command, tool_env, q, version, issue_content,
                   issue_title, log_fd, log_file_path, log_file, ans, events,
                   fds>>
    /\ UNCHANGED ou_vars

\* Line 60 left out: the file is neither flushed nor closed.
CloseOk_left_out ==
    /\ pc = "close"
    /\ pc' = "tell"
    /\ UNCHANGED <<err, command, tool_env, q, version, issue_content,
                   issue_title, log_fd, log_file_path, log_file, ans, exc,
                   events, files, fds>>
    /\ UNCHANGED ou_vars

\* Line 60: close() flushes the buffer to the file and closes the descriptor.
CloseOk ==
    /\ pc = "close"
    /\ files' = file_put(files, log_file_path,
                         files[log_file_path] \o log_file.buffer)
    /\ log_file' = [state |-> "closed", buffer |-> << >>]
    /\ fds' = fd_close(fds, log_fd[1])
    /\ pc' = "tell"
    /\ UNCHANGED <<err, command, tool_env, q, version, issue_content,
                   issue_title, log_fd, log_file_path, ans, exc, events>>
    /\ UNCHANGED ou_vars

\* Line 60: the flush of close() fails; the descriptor is closed all the same
\* and the error is raised.
CloseFails ==
    /\ pc = "close"
    /\ \E n \in {0, Len(log_file.buffer) \div 2} :
        files' = file_put(files, log_file_path,
                          files[log_file_path] \o SubSeq(log_file.buffer, 1, n))
    /\ log_file' = [state |-> "closed", buffer |-> << >>]
    /\ fds' = fd_close(fds, log_fd[1])
    /\ Raise("OSError")
    /\ UNCHANGED <<err, command, tool_env, q, version, issue_content,
                   issue_title, log_fd, log_file_path, ans, events>>
    /\ UNCHANGED ou_vars

\* Lines 62-68.
Tell ==
    /\ pc = "tell"
    /\ events' = Append(events,
                        Event("tell", tell_message(command, log_file_path),
                              Unbound))
    /\ pc' = "ask"
    /\ UNCHANGED <<err, command, tool_env, q, version, issue_content,
                   issue_title, log_fd, log_file_path, log_file, ans, exc,
                   files, fds>>
    /\ UNCHANGED ou_vars

\* Lines 71-72: the user is asked and types a line.
Ask ==
    /\ pc = "ask"
    /\ Len(EventsOf("ask")) < MaxAsks
    /\ \E a \in Answers :
        /\ events' = Append(events, Event("ask", ASK_PROMPT, a))
        /\ ans' = lower(strip(a))
    /\ pc' = "test"
    /\ UNCHANGED <<err, command, tool_env, q, version, issue_content,
                   issue_title, log_fd, log_file_path, log_file, exc, files,
                   fds>>
    /\ UNCHANGED ou_vars

\* The loop test with the empty answer forgotten.
loop_breaks_without_default(a) == a \in {<<"y">>, <<"n">>}

\* Lines 73-77: whether the answer ends the loop: `not ans` (the default, 'N')
\* or `ans in ['y', 'n']`.
loop_breaks(a) == a = << >> \/ a \in {<<"y">>, <<"n">>}

\* Lines 73-77: the loop ends on an empty answer, on 'y' and on 'n'.
LoopTest ==
    /\ pc = "test"
    /\ IF loop_breaks(ans) THEN pc' = "decide" ELSE pc' = "ask"
    /\ UNCHANGED <<err, command, tool_env, q, version, issue_content,
                   issue_title, log_fd, log_file_path, log_file, ans, exc,
                   events, files, fds>>
    /\ UNCHANGED ou_vars

\* The test of line 79 turned into "anything but no".
submits_unless_no(a) == lower(a) # <<"n">>

\* Line 79: whether the answer asks for the issue: `ans.lower() == 'y'`.
submits(a) == lower(a) = <<"y">>

\* Lines 79-80: _create_issue is called when the answer is 'y'.
Decide ==
    /\ pc = "decide"
    /\ IF submits(ans)
       THEN /\ events' = Append(events, Event("_create_issue", issue_title,
                                              issue_content))
            /\ pc' = "_create_issue"
       ELSE /\ events' = events
            /\ pc' = "done"
    /\ UNCHANGED <<err, command, tool_env, q, version, issue_content,
                   issue_title, log_fd, log_file_path, log_file, ans, exc,
                   files, fds>>
    /\ UNCHANGED ou_vars

\* Lines 83-98: _create_issue builds the URL and hands it to the browser.
\* Its arguments are those of the call Decide made.
_create_issue ==
    /\ pc = "_create_issue"
    /\ LET call == events[Len(events)]
       IN  events' = Append(events,
                            Event("webbrowser.open",
                                  issue_url(call.text, call.extra), Unbound))
    /\ pc' = "done"
    /\ UNCHANGED <<err, command, tool_env, q, version, issue_content,
                   issue_title, log_fd, log_file_path, log_file, ans, exc,
                   files, fds>>
    /\ UNCHANGED ou_vars

Next ==
    \/ Mkstemp
    \/ Spawn
    \/ WaitOk
    \/ WaitCalledProcessError
    \/ Render
    \/ Title
    \/ Fdopen
    \/ WriteOk
    \/ WriteFails
    \/ CloseOk
    \/ CloseFails
    \/ Tell
    \/ Ask
    \/ LoopTest
    \/ Decide
    \/ _create_issue

Spec == Init /\ [][Next]_vars

----------------------------------------------------------------------------
\* open_url (utils/webbrowser.py:19-23).

\* The URLs open_url is called with.
UrlInputs ==
    { <<"h","t","t","p","s",":","/","/","e","x","a","m","p","l","e",".","c",
        "o","m","/","?","q","=","1">>,
      <<"h","t","t","p",":","/","/","l","o","c","a","l","h","o","s","t">> }

\* The descriptor tables open_url may be entered with: standard input on the
\* terminal; standard output on the terminal, redirected to a file or closed;
\* standard error on the terminal or closed; descriptor 3 closed or left open
\* on a report by an earlier handle_crash.
FdTables ==
    { t \in UNION { [D -> {DEV_TTY, OUT_FILE,
                           mkstemp_path(<<"k","3","x","9","a","_","7","q">>)}]
                    : D \in SUBSET (0..3) } :
        /\ 0 \in DOMAIN t /\ t[0] = DEV_TTY
        /\ 1 \in DOMAIN t => t[1] \in {DEV_TTY, OUT_FILE}
        /\ 2 \in DOMAIN t => t[2] = DEV_TTY
        /\ 3 \in DOMAIN t =>
              t[3] = mkstemp_path(<<"k","3","x","9","a","_","7","q">>) }

\* open_url is called from a process in which handle_crash is not running.
InitOpenUrl ==
    /\ pc = "idle"
    /\ err = Unbound
    /\ command = Unbound
    /\ tool_env = [t \in ToolSet |-> "ok"]
    /\ files = << >>
    /\ fds \in FdTables
    /\ parent_fds = StandardFds
    /\ HandleCrashLocalsUnbound
    /\ OpenUrlIdle

\* os.dup2 with its two arguments exchanged.
os_dup2_swapped(t, fd, fd2) ==
    IF fd2 \in DOMAIN t THEN fd_open(t, fd, t[fd2]) ELSE t

\* os.dup2(fd, fd2): descriptor fd2 of table t refers to what fd refers to.
\* With fd not open the call fails (EBADF) and the table is as it was.
os_dup2(t, fd, fd2) ==
    IF fd \in DOMAIN t THEN fd_open(t, fd2, t[fd]) ELSE t

\* Line 19: open_url is entered.
OpenUrlCall ==
    /\ upc = "idle"
    /\ calls < MaxCalls
    /\ \E u \in UrlInputs : url' = u
    /\ fds_at_call' = fds
    /\ calls' = calls + 1
    /\ upc' = "open"
    /\ UNCHANGED <<parent_fds, f, fds>>
    /\ UNCHANGED hc_vars

\* Line 21: open(os.devnull, 'wb') takes the lowest free descriptor.
OpenDevnull ==
    /\ upc = "open"
    /\ f' = <<lowest_free(fds)>>
    /\ fds' = fd_open(fds, lowest_free(fds), DEVNULL)
    /\ upc' = "dup2"
    /\ UNCHANGED <<parent_fds, url, fds_at_call, calls>>
    /\ UNCHANGED hc_vars

\* Line 22: os.dup2(f.fileno(), 2).
Dup2 ==
    /\ upc = "dup2"
    /\ fds' = os_dup2(fds, f[1], STDERR_FILENO)
    /\ upc' = "browser"
    /\ UNCHANGED <<parent_fds, url, f, fds_at_call, calls>>
    /\ UNCHANGED hc_vars

\* Line 23: webbrowser.open(url); the event records what standard error refers
\* to at that moment.
BrowserOpen ==
    /\ upc = "browser"
    /\ events' = Append(events,
                        Event("webbrowser.open", url,
                              IF STDERR_FILENO \in DOMAIN fds
                              THEN fds[STDERR_FILENO] ELSE Unbound))
    /\ upc' = "exit"
    /\ UNCHANGED <<err, command, tool_env, q, version, issue_content,
                   issue_title, log_fd, log_file_path, log_file, ans, exc,
                   pc, files, fds>>
    /\ UNCHANGED <<parent_fds, url, f, fds_at_call, calls>>

\* Line 21: leaving the with block closes f.
WithExit ==
    /\ upc = "exit"
    /\ fds' = fd_close(fds, f[1])
    /\ f' = NoFd
    /\ upc' = "idle"
    /\ UNCHANGED <<parent_fds, url, fds_at_call, calls>>
    /\ UNCHANGED hc_vars

NextOpenUrl ==
    \/ OpenUrlCall
    \/ OpenDevnull
    \/ Dup2
    \/ BrowserOpen
    \/ WithExit

SpecOpenUrl == InitOpenUrl /\ [][NextOpenUrl]_vars

\* handle_crash is sequential code: once console.ask has returned, the test
\* that follows it is executed.  (Ask itself waits for the user.)
FairSpec == Spec /\ WF_vars(LoopTest)

----------------------------------------------------------------------------
\* Properties.

\* The answers the console has returned, as handle_crash reads them
\* (strip().lower()).
AnswersRead ==
    [i \in 1..Len(EventsOf("ask")) |-> lower(strip(EventsOf("ask")[i].extra))]

LastAnswer == AnswersRead[Len(AnswersRead)]

\* The answers the gate accepts: empty, 'y' and 'n'.
Accepted(a) == a \in {<< >>, <<"y">>, <<"n">>}

\* handle_crash has left the loop of lines 70-77.
PastLoop == pc \in {"decide", "_create_issue", "done"}

\* The report has been written and closed (lines 54-60 have completed).
SinkDone == pc \in {"tell", "ask", "test", "decide", "_create_issue", "done"}

\* handle_crash has ended, by returning or by an exception.
Left == pc \in {"done", "raised"}

\* C1: _create_issue and the browser are called at most once, and only when the
\* last answer read, stripped and lower-cased, is 'y'; when handle_crash
\* returns after a deciding answer that is empty or 'n', neither was called.
C1_SubmitOnlyOnYes ==
    /\ Len(EventsOf("_create_issue")) <= 1
    /\ Len(EventsOf("webbrowser.open")) <= Len(EventsOf("_create_issue"))
    /\ EventsOf("_create_issue") # << >> =>
          /\ AnswersRead # << >>
          /\ LastAnswer = <<"y">>
    /\ (pc = "done" /\ LastAnswer \in {<< >>, <<"n">>}) =>
          /\ EventsOf("_create_issue") = << >>
          /\ EventsOf("webbrowser.open") = << >>

\* C1 witness: handle_crash has returned after opening the browser on a 'y'.
C1_Witness ==
    /\ pc = "done"
    /\ Len(EventsOf("webbrowser.open")) = 1
    /\ LastAnswer = <<"y">>

\* C2 (safety part): every prompt is the [y/N] question; every answer but the
\* last was a rejected one and was followed by exactly one more prompt and
\* nothing else; the loop is left exactly on the first accepted answer, which
\* alone decides whether the issue is submitted.
C2_GateInv ==
    /\ \A i \in 1..Len(events) :
          events[i].op = "ask" =>
              /\ events[i].text = ASK_PROMPT
              /\ i > 1
              /\ events[i - 1].op \in {"tell", "ask"}
    /\ Len(EventsOf("tell")) <= 1
    /\ \A i \in 1..Len(AnswersRead) :
          i < Len(AnswersRead) => ~Accepted(AnswersRead[i])
    /\ PastLoop => AnswersRead # << >> /\ Accepted(LastAnswer)
    /\ (pc = "ask" /\ AnswersRead # << >>) => ~Accepted(LastAnswer)
    /\ pc = "done" =>
          (Len(EventsOf("webbrowser.open")) = 1 <=> LastAnswer = <<"y">>)

\* C2: the gate invariant holds throughout; once an accepted answer has been
\* read the loop is left, and a rejected answer leads back to the prompt.
C2_Gate ==
    /\ []C2_GateInv
    /\ (pc = "test" /\ Accepted(ans)) ~> PastLoop
    /\ (pc = "test" /\ ~Accepted(ans)) ~> (pc = "ask")

\* C2 witness: 'maybe' then 'y': two prompts, then the issue is submitted.
C2_Witness ==
    /\ pc = "done"
    /\ Len(EventsOf("ask")) = 2
    /\ EventsOf("ask")[1].extra = <<"m","a","y","b","e">>
    /\ EventsOf("ask")[2].extra = <<"y">>
    /\ Len(EventsOf("webbrowser.open")) = 1

\* C3: a browser open is preceded by the message, which names the command and
\* the path of the report, and by an answer read after the message; when the
\* message is about to be shown, and ever after, the report is written and its
\* file closed.
C3_MessageBeforeBrowser ==
    /\ \A i \in 1..Len(events) :
          events[i].op = "webbrowser.open" =>
              \E j \in 1..(i - 1) :
                  /\ events[j].op = "tell"
                  /\ contains(events[j].text, command)
                  /\ contains(events[j].text, log_file_path)
                  /\ \E k \in (j + 1)..(i - 1) : events[k].op = "ask"
    /\ (pc = "tell" \/ EventsOf("tell") # << >>) =>
          /\ log_file.state = "closed"
          /\ log_fd[1] \notin DOMAIN fds
          /\ files[log_file_path] = issue_content

\* C3 witness: the browser has been opened.
C3_Witness ==
    /\ EventsOf("webbrowser.open") # << >>
    /\ EventsOf("tell") # << >>

\* The query of TOOLS[i] has ended: _create_issue_body is at a later query or
\* past the queries.
QueryEnded(i) ==
    \/ q > i
    \/ pc \in {"render", "title", "fdopen", "write", "close"}
    \/ SinkDone
    \/ (pc = "raised" /\ exc = "OSError")

\* C4: whether each tool exits 0, exits non-zero or is missing,
\* _create_issue_body propagates no error, and the version field of a query
\* that has ended is the output of its tool when the tool exited 0 and the
\* sentinel when it failed.
C4_FailSoftQueries ==
    /\ exc # "FileNotFoundError"
    /\ \A i \in 1..Len(TOOLS) :
          QueryEnded(i) =>
              version[TOOLS[i]] =
                  IF tool_env[TOOLS[i]] = "ok"
                  THEN rstrip(tool_stdout(TOOLS[i]))
                  ELSE SENTINEL

\* C5: handle_crash never ends with the descriptor of mkstemp still open.
C5_DescriptorClosedOnExit ==
    (Left /\ log_fd # NoFd) => log_fd[1] \notin DOMAIN fds

\* C6: when writing the report fails, the console is still told something.
C6_ToldAfterWriteFailure ==
    (pc = "raised" /\ exc = "OSError") => EventsOf("tell") # << >>

\* C8: a query of a tool that never exits is abandoned: handle_crash, waiting
\* for the tool, can still take a step.
C8_HungQueryAbandoned ==
    (pc = "wait" /\ tool_env[TOOLS[q]] = "hang") => ENABLED Next

\* C9: once the report is written, the file mkstemp created holds the rendered
\* body and nothing else and is closed; it is a new file under the prefix; the
\* message shows its path; the body handed to _create_issue is its content.
C9_ReportFile ==
    SinkDone =>
        /\ issue_content = render(ISSUE_TEMPLATE,
                                  issue_options(command, version))
        /\ files[log_file_path] = issue_content
        /\ log_file.state = "closed"
        /\ log_fd[1] \notin DOMAIN fds
        /\ \E sfx \in Suffixes :
              log_file_path = TMPDIR \o <<"/">> \o MKSTEMP_PREFIX \o sfx
        /\ \A p \in DOMAIN files \ {log_file_path} : files[p] = OldReport
        /\ \A i \in 1..Len(events) :
              /\ events[i].op = "tell" =>
                    /\ contains(events[i].text, log_file_path)
                    /\ SubSeq(events[i].text,
                              Len(events[i].text) - Len(log_file_path) + 1,
                              Len(events[i].text)) = log_file_path
              /\ events[i].op = "_create_issue" =>
                    events[i].extra = files[log_file_path]

\* C9 witness: the issue is created while an older report exists beside the
\* new one.
C9_Witness ==
    /\ EventsOf("_create_issue") # << >>
    /\ Cardinality(DOMAIN files) = 2
    /\ files[log_file_path] # << >>

\* C10: the title is the kind, ':', the message, ' during "', the command, '"'.
C10_Title ==
    issue_title # Unbound =>
        /\ issue_title =
              err.kind \o <<":">> \o err.msg
                  \o <<" ","d","u","r","i","n","g"," ","\"">> \o command
                  \o <<"\"">>
        /\ (/\ err.kind = <<"V","a","l","u","e","E","r","r","o","r">>
            /\ err.msg = <<"b","a","d"," ","c","o","n","f","i","g">>
            /\ command = <<"d","e","p","l","o","y"," ","n","e","w">>) =>
              issue_title =
                  <<"V","a","l","u","e","E","r","r","o","r",":","b","a","d",
                    " ","c","o","n","f","i","g"," ","d","u","r","i","n","g",
                    " ","\"","d","e","p","l","o","y"," ","n","e","w","\"">>

\* C10 witness: the title of ValueError('bad config') during "deploy new".
C10_Witness ==
    issue_title =
        <<"V","a","l","u","e","E","r","r","o","r",":","b","a","d"," ","c","o",
          "n","f","i","g"," ","d","u","r","i","n","g"," ","\"","d","e","p",
          "l","o","y"," ","n","e","w","\"">>

\* C7: open_url changes descriptor 2 and nothing else.  When it calls the
\* browser, 2 refers to the null device and every other descriptor that was
\* open at the call refers to what it referred to; when it has returned, every
\* other descriptor is open or closed as it was at the call; the table of the
\* parent process is never touched.
C7_OnlyStderrRedirected ==
    /\ parent_fds = StandardFds
    /\ upc \in {"browser", "exit"} =>
          /\ STDERR_FILENO \in DOMAIN fds
          /\ fds[STDERR_FILENO] = DEVNULL
          /\ \A n \in DOMAIN fds_at_call \ {STDERR_FILENO} :
                n \in DOMAIN fds /\ fds[n] = fds_at_call[n]
    /\ \A i \in 1..Len(events) :
          events[i].op = "webbrowser.open" => events[i].extra = DEVNULL
    /\ (upc = "idle" /\ calls > 0) =>
          \A n \in (DOMAIN fds \cup DOMAIN fds_at_call) \ {STDERR_FILENO} :
              /\ n \in DOMAIN fds
              /\ n \in DOMAIN fds_at_call
              /\ fds[n] = fds_at_call[n]

\* C7 witness: open_url has returned in a process whose standard output goes
\* to a file, and the browser was called.
C7_Witness ==
    /\ upc = "idle"
    /\ calls > 0
    /\ EventsOf("webbrowser.open") # << >>
    /\ 1 \in DOMAIN fds
    /\ fds[1] = OUT_FILE

====
